---- MODULE Spec2Model ----
(***************************************************************************)
(* Model of saba_core::url::Url (src/saba_core/src/url.rs): the two-phase  *)
(* URL value (new, then parse) and its four extraction helpers.            *)
(*                                                                         *)
(* A Rust String is modelled as a sequence of one-character strings, so    *)
(* that contains / trim_start_matches / split / splitn / find are computed *)
(* as the standard library computes them.                                  *)
(***************************************************************************)
EXTENDS Naturals, Sequences, FiniteSets

VARIABLES
    input,  \* the caller's raw string, handed to Url::new
    self,   \* the receiver: the Url struct (url, host, port, path, searchpart)
    ret,    \* what the latest parse call returned (Result<Url, String>)
    prev,   \* what the parse call before the latest one returned
    calls   \* parse calls made on the current receiver

vars == <<input, self, ret, prev, calls>>

----------------------------------------------------------------------------
(* Bounds of the model *)

\* longest text following the scheme part of an input
MaxTail == 4

\* parse calls made on one receiver
MaxCalls == 2

----------------------------------------------------------------------------
(* Strings *)

\* the characters inputs are built from, besides those of the scheme
Chars == {"a", "1", ":", "/", "?"}

HTTP == <<"h", "t", "t", "p", ":", "/", "/">>

HTTPS == <<"h", "t", "t", "p", "s", ":", "/", "/">>

DefaultPort == <<"8", "0">>

ErrMsg == "Only HTTP scheme is supported"

EmptyStr == <<>>

\* every string over Chars of length n
StringsOfLen(n) == [1..n -> Chars]

\* every string over Chars of length at most n
StringsUpTo(n) == UNION {StringsOfLen(k) : k \in 0..n}

\* text put in front of the scheme: nothing, or one character
Prefixes == {EmptyStr} \cup {<<c>> : c \in Chars}

\* the raw strings the model hands to Url::new
Inputs ==
    LET tails == StringsUpTo(MaxTail)
    IN  {p \o HTTP \o t : p \in Prefixes, t \in tails}
        \cup {m \o t : m \in {EmptyStr, HTTP \o HTTP, HTTPS}, t \in tails}

----------------------------------------------------------------------------
(* The standard-library string functions the code calls *)

\* s[from..]: the suffix of s after its first k characters
Skip(s, k) == SubSeq(s, k + 1, Len(s))

\* str::starts_with
StartsWith(s, pat) == Len(pat) <= Len(s) /\ SubSeq(s, 1, Len(pat)) = pat

\* str::contains with a string pattern
RECURSIVE Contains(_, _)
Contains(s, pat) ==
    IF Len(s) < Len(pat) THEN FALSE
    ELSE IF StartsWith(s, pat) THEN TRUE
    ELSE Contains(Skip(s, 1), pat)

\* removing the first occurrence of pat, wherever it is
RECURSIVE RemoveFirst(_, _)
RemoveFirst(s, pat) ==
    IF Len(s) < Len(pat) \/ pat = EmptyStr THEN s
    ELSE IF StartsWith(s, pat) THEN Skip(s, Len(pat))
    ELSE <<s[1]>> \o RemoveFirst(Skip(s, 1), pat)

\* str::trim_start_matches with a string pattern: the prefix is removed
\* repeatedly, as long as the rest still starts with it
RECURSIVE TrimStartMatches(_, _)
TrimStartMatches(s, pat) ==
    IF pat # EmptyStr /\ StartsWith(s, pat)
    THEN TrimStartMatches(Skip(s, Len(pat)), pat)
    ELSE s

\* str::find with a char pattern: the index of the first c, 0 for None
\* (indices are 1-based here)
Find(s, c) ==
    IF \E i \in 1..Len(s) : s[i] = c
    THEN CHOOSE i \in 1..Len(s) : s[i] = c /\ \A j \in 1..(i - 1) : s[j] # c
    ELSE 0

\* str::splitn(n, c).collect(): at most n parts, the last one unsplit
RECURSIVE SplitN(_, _, _)
SplitN(n, s, c) ==
    IF n = 0 THEN <<>>
    ELSE LET i == Find(s, c)
         IN  IF n = 1 \/ i = 0 THEN <<s>>
             ELSE <<SubSeq(s, 1, i - 1)>> \o SplitN(n - 1, Skip(s, i), c)

\* str::split(c).collect(): every part
RECURSIVE Split(_, _)
Split(s, c) ==
    LET i == Find(s, c)
    IN  IF i = 0 THEN <<s>>
        ELSE <<SubSeq(s, 1, i - 1)>> \o Split(Skip(s, i), c)

----------------------------------------------------------------------------
(* Url *)

\* Url::new
UrlNew(url) ==
    [url |-> url, host |-> EmptyStr, port |-> EmptyStr,
     path |-> EmptyStr, searchpart |-> EmptyStr]

\* is_http testing for the scheme name only
is_http_name_only(u) == Contains(u.url, <<"h", "t", "t", "p">>)

\* Url::is_http
is_http(u) == Contains(u.url, HTTP)

\* extract_host returning the first part whole, port included
extract_host_keeps_port(u) ==
    LET url_parts == Split(TrimStartMatches(u.url, HTTP), "/")
    IN  url_parts[1]

\* Url::extract_host
extract_host(u) ==
    LET url_parts == Split(TrimStartMatches(u.url, HTTP), "/")
        index == Find(url_parts[1], ":")
    IN  IF index # 0
        THEN SubSeq(url_parts[1], 1, index - 1)
        ELSE url_parts[1]

\* extract_port keeping the ':' (the slice starts one character early)
extract_port_from_colon(u) ==
    LET url_parts == SplitN(2, TrimStartMatches(u.url, HTTP), "/")
        index == Find(url_parts[1], ":")
    IN  IF index # 0
        THEN Skip(url_parts[1], index - 1)
        ELSE DefaultPort

\* extract_port looking for ':' in the whole string, not in its first part
extract_port_any_colon(u) ==
    LET rest == TrimStartMatches(u.url, HTTP)
        index == Find(rest, ":")
    IN  IF index # 0
        THEN SplitN(2, Skip(rest, index), "/")[1]
        ELSE DefaultPort

\* Url::extract_port
extract_port(u) ==
    LET url_parts == SplitN(2, TrimStartMatches(u.url, HTTP), "/")
        index == Find(url_parts[1], ":")
    IN  IF index # 0
        THEN Skip(url_parts[1], index)
        ELSE DefaultPort

\* Url::extract_path
extract_path(u) ==
    LET url_parts == SplitN(2, TrimStartMatches(u.url, HTTP), "/")
    IN  IF Len(url_parts) < 2 THEN EmptyStr
        ELSE LET path_and_searchpart == SplitN(2, url_parts[2], "?")
             IN  path_and_searchpart[1]

\* extract_searchpart splitting on '?' without first splitting on '/'
extract_searchpart_no_slash(u) ==
    LET path_and_searchpart == SplitN(2, TrimStartMatches(u.url, HTTP), "?")
    IN  IF Len(path_and_searchpart) < 2 THEN EmptyStr
        ELSE path_and_searchpart[2]

\* Url::extract_searchpart
extract_searchpart(u) ==
    LET url_parts == SplitN(2, TrimStartMatches(u.url, HTTP), "/")
    IN  IF Len(url_parts) < 2 THEN EmptyStr
        ELSE LET path_and_searchpart == SplitN(2, url_parts[2], "?")
             IN  IF Len(path_and_searchpart) < 2 THEN EmptyStr
                 ELSE path_and_searchpart[2]

\* Result<Url, String>
NoResult == [tag |-> "None"]

Ok(u) == [tag |-> "Ok", val |-> u]

Err(msg) == [tag |-> "Err", msg |-> msg]

\* parse keeping the stripped string in the receiver's url
parse_keeps_stripped(u) ==
    IF ~Contains(u.url, HTTP)
    THEN [self |-> u, ret |-> Err(ErrMsg)]
    ELSE LET u0 == [u EXCEPT !.url = TrimStartMatches(u.url, HTTP)]
             u4 == [u0 EXCEPT !.host = extract_host(u),
                              !.port = extract_port(u),
                              !.path = extract_path(u),
                              !.searchpart = extract_searchpart(u)]
         IN  [self |-> u4, ret |-> Ok(u4)]

\* parse filling the fields in before it checks the scheme
parse_checks_late(u) ==
    LET u4 == [u EXCEPT !.host = extract_host(u),
                        !.port = extract_port(u),
                        !.path = extract_path(u),
                        !.searchpart = extract_searchpart(u)]
    IN  IF ~Contains(u.url, HTTP)
        THEN [self |-> u4, ret |-> Err(ErrMsg)]
        ELSE [self |-> u4, ret |-> Ok(u4)]

\* Url::parse: the receiver after the call and the value returned
parse(u) ==
    IF ~is_http(u)
    THEN [self |-> u, ret |-> Err(ErrMsg)]
    ELSE LET u1 == [u EXCEPT !.host = extract_host(u)]
             u2 == [u1 EXCEPT !.port = extract_port(u1)]
             u3 == [u2 EXCEPT !.path = extract_path(u2)]
             u4 == [u3 EXCEPT !.searchpart = extract_searchpart(u3)]
         IN  [self |-> u4, ret |-> Ok(u4)]

----------------------------------------------------------------------------
(* The state machine: a caller holding one raw string *)

Init ==
    /\ input \in Inputs
    /\ self = UrlNew(input)
    /\ ret = NoResult
    /\ prev = NoResult
    /\ calls = 0

\* the caller builds a fresh shell from its raw string: Url::new(input)
New ==
    /\ calls > 0
    /\ self' = UrlNew(input)
    /\ calls' = 0
    /\ UNCHANGED <<input, ret, prev>>

\* the caller calls parse on the receiver it holds
Parse ==
    /\ calls < MaxCalls
    /\ LET r == parse(self)
       IN  /\ self' = r.self
           /\ ret' = r.ret
    /\ prev' = ret
    /\ calls' = calls + 1
    /\ UNCHANGED input

Next == New \/ Parse

Spec == Init /\ [][Next]_vars

----------------------------------------------------------------------------
(* The specification's reading of the parts of a URL, by position in the   *)
(* string.  The properties below compare the code's results with these.    *)

Digits == {"0", "1", "2", "3", "4", "5", "6", "7", "8", "9"}

\* pat occurs in s at position i
OccursAt(s, i, pat) ==
    i + Len(pat) - 1 <= Len(s) /\ SubSeq(s, i, i + Len(pat) - 1) = pat

\* pat occurs somewhere in s
Occurs(s, pat) == \E i \in 1..Len(s) : OccursAt(s, i, pat)

\* the position of the first character of s that is in cs; Len(s) + 1 if none
FirstOf(s, cs) ==
    IF \E i \in 1..Len(s) : s[i] \in cs
    THEN CHOOSE i \in 1..Len(s) : s[i] \in cs /\ \A j \in 1..(i - 1) : s[j] \notin cs
    ELSE Len(s) + 1

\* s before position i, and s after position i
Before(s, i) == SubSeq(s, 1, i - 1)

After(s, i) == SubSeq(s, i + 1, Len(s))

\* s without one leading "http://", if it has one
StripOnce(s) == IF OccursAt(s, 1, HTTP) THEN After(s, Len(HTTP)) ELSE s

\* the number of "http://" that s begins with, one after the other
LeadingSchemes(s) ==
    CHOOSE k \in 0..Len(s) :
        /\ \A j \in 0..(k - 1) : OccursAt(s, j * Len(HTTP) + 1, HTTP)
        /\ ~OccursAt(s, k * Len(HTTP) + 1, HTTP)

\* s without any of the "http://" it begins with
StripAll(s) == After(s, LeadingSchemes(s) * Len(HTTP))

\* steps 3 to 6 of the specification, on the string t left after stripping
HostOf(t) == Before(t, FirstOf(t, {":", "/"}))

PortOf(t) ==
    LET slash == FirstOf(t, {"/"})
        colon == FirstOf(t, {":"})
    IN  IF colon < slash THEN SubSeq(t, colon + 1, slash - 1) ELSE DefaultPort

PathOf(t) ==
    LET slash == FirstOf(t, {"/"})
    IN  IF slash > Len(t) THEN EmptyStr
        ELSE LET r == After(t, slash)
             IN  Before(r, FirstOf(r, {"?"}))

SearchpartOf(t) ==
    LET slash == FirstOf(t, {"/"})
    IN  IF slash > Len(t) THEN EmptyStr
        ELSE LET r == After(t, slash)
             IN  After(r, FirstOf(r, {"?"}))

\* the four derived fields of u are steps 3 to 6 applied to t
FieldsFrom(u, t) ==
    /\ u.host = HostOf(t)
    /\ u.port = PortOf(t)
    /\ u.path = PathOf(t)
    /\ u.searchpart = SearchpartOf(t)

\* a parse call has returned, successfully or not
Returned == ret # NoResult

Succeeded == ret.tag = "Ok"

Failed == ret.tag = "Err"

----------------------------------------------------------------------------
(* C2: parse succeeds on every raw string that begins with "http://", and  *)
(* fails with "Only HTTP scheme is supported" on every raw string in which *)
(* "http://" occurs nowhere; that error is the only failure, and it is     *)
(* returned exactly when is_http() is false.                               *)
C2_SchemeCheck ==
    Returned =>
        /\ OccursAt(input, 1, HTTP) => Succeeded
        /\ ~Occurs(input, HTTP) => ret = Err(ErrMsg)
        /\ Failed => ret.msg = ErrMsg
        /\ Failed <=> ~is_http(UrlNew(input))
        /\ Succeeded \/ Failed

\* "https://a" has been parsed and refused
C2_Witness ==
    /\ input = HTTPS \o <<"a">>
    /\ ret = Err(ErrMsg)
    /\ calls = 1

(* C8: parsing the same raw string again returns what the parse before it  *)
(* returned, on a fresh shell as on the same receiver, and a second parse  *)
(* on a populated receiver changes none of its fields.                     *)
C8_Idempotent ==
    [][(calls' = calls + 1 /\ Returned) =>
          /\ ret' = ret
          /\ calls >= 1 => self' = self]_vars

\* the same receiver has been parsed twice, successfully
C8_Witness ==
    /\ calls = 2
    /\ Succeeded
    /\ prev = ret
    /\ self = ret.val
    /\ self.host # EmptyStr

(* C10: a failed parse leaves the receiver as new made it (raw verbatim,   *)
(* host, port, path and searchpart empty), however often it is repeated;   *)
(* after a successful parse raw is still the input, in the receiver and in *)
(* the returned copy.                                                      *)
C10_Frame ==
    /\ self.url = input
    /\ Succeeded => ret.val.url = input
    /\ Failed => self = UrlNew(input)

\* a raw string without the scheme but with a ':' and a '/' has been
\* refused twice by the same receiver
C10_Witness ==
    /\ calls = 2
    /\ Failed
    /\ prev = ret
    /\ input = <<"a", ":", "1", "/">>
    /\ self = UrlNew(input)

(* C9: on a raw string in which "http://" occurs, but not at the start,    *)
(* parse succeeds and nothing is stripped: host, port, path and searchpart *)
(* are steps 3 to 6 applied to the raw string as it is.                    *)
C9_NotAPrefix ==
    (Returned /\ Occurs(input, HTTP) /\ ~OccursAt(input, 1, HTTP)) =>
        /\ Succeeded
        /\ FieldsFrom(ret.val, input)
        /\ calls > 0 => self = ret.val

\* "ahttp://a/a?1": the host is the text before the scheme's own ':', the
\* port what is between that ':' and the scheme's first '/'
C9_Witness ==
    /\ input = <<"a">> \o HTTP \o <<"a", "/", "a", "?">>
    /\ Succeeded
    /\ ret.val.host = <<"a", "h", "t", "t", "p">>
    /\ ret.val.port = EmptyStr
    /\ ret.val.path = <<"/", "a", "/", "a">>
    /\ ret.val.searchpart = EmptyStr

(* C7: after a successful parse, if the string left after stripping the    *)
(* scheme prefix has no ':' before its first '/' (before its end, when it  *)
(* has no '/'), port is "80"; a ':' after the first '/' does not count.    *)
C7_DefaultPort ==
    Succeeded =>
        \A t \in {StripOnce(input), StripAll(input)} :
            FirstOf(t, {":"}) >= FirstOf(t, {"/"}) => ret.val.port = DefaultPort

\* "http://a/:1": the only ':' after the scheme is in the path
C7_Witness ==
    /\ input = HTTP \o <<"a", "/", ":", "1">>
    /\ Succeeded
    /\ ret.val.port = DefaultPort
    /\ ret.val.path = <<":", "1">>

(* C3, as the specification states it: after every successful parse host  *)
(* is non-empty, and it is empty on the shell that new returns.            *)
C3_HostNonEmpty ==
    /\ calls = 0 => self.host = EmptyStr
    /\ Succeeded => ret.val.host # EmptyStr

(* C3, amended: host is empty on the shell that new returns; after a       *)
(* successful parse host is empty exactly when the string left after the   *)
(* leading "http://" is empty or begins with ':' or '/', and non-empty     *)
(* otherwise.                                                              *)
C3_HostEmptyIff ==
    /\ calls = 0 => self.host = EmptyStr
    /\ Succeeded =>
          LET t == StripAll(input)
          IN  ret.val.host = EmptyStr <=> (t = EmptyStr \/ t[1] \in {":", "/"})

\* "http://:1" has been parsed: the host is empty, the port is "1"
C3_Witness ==
    /\ input = HTTP \o <<":", "1">>
    /\ calls = 1
    /\ Succeeded
    /\ self.host = EmptyStr
    /\ self.port = <<"1">>

(* C5, as the specification states it: after every successful parse        *)
(* searchpart is empty if raw has no '?', and otherwise is what follows    *)
(* the first '?' of raw.                                                   *)
C5_AfterFirstQuestionMark ==
    Succeeded =>
        ret.val.searchpart = After(input, FirstOf(input, {"?"}))

(* C5, amended: after every successful parse searchpart is empty if raw    *)
(* has no '?'; otherwise it is what follows the first '?' found after the  *)
(* first '/' of the string left after the leading "http://", and empty     *)
(* when that string has no '/' or no '?' after its first '/'.              *)
C5_AfterFirstSlash ==
    Succeeded =>
        /\ FirstOf(input, {"?"}) > Len(input) => ret.val.searchpart = EmptyStr
        /\ ret.val.searchpart = SearchpartOf(StripAll(input))

\* "http://a?1": no '/' follows the host, and the searchpart is empty
C5_Witness ==
    /\ input = HTTP \o <<"a", "?", "1">>
    /\ Succeeded
    /\ ret.val.host = <<"a", "?", "1">>
    /\ ret.val.searchpart = EmptyStr

(* C6, as the specification states it: after every successful parse port   *)
(* is a non-empty string of decimal digits.                                *)
C6_PortIsDigits ==
    Succeeded =>
        /\ ret.val.port # EmptyStr
        /\ \A i \in 1..Len(ret.val.port) : ret.val.port[i] \in Digits

(* C6, amended: after every successful parse port is "80" when the string  *)
(* left after the leading "http://" has no ':' before its first '/', and   *)
(* otherwise is exactly the text between that first ':' and the first '/'  *)
(* (the end, when there is no '/'), which may be empty or hold characters  *)
(* that are not digits.                                                    *)
C6_PortAsWritten ==
    Succeeded =>
        LET t == StripAll(input)
            slash == FirstOf(t, {"/"})
            colon == FirstOf(t, {":"})
        IN  /\ colon >= slash => ret.val.port = DefaultPort
            /\ colon < slash => ret.val.port = SubSeq(t, colon + 1, slash - 1)

\* "http://a:1?": the port is "1?", not a number
C6_Witness ==
    /\ input = HTTP \o <<"a", ":", "1", "?">>
    /\ Succeeded
    /\ ret.val.port = <<"1", "?">>
    /\ ret.val.host = <<"a">>

----------------------------------------------------------------------------
(* The well-formed raw strings of C1:                                      *)
(*   "http://" H [":" P] ["/" PATH ["?" Q]]                                *)
(* with no ':' and no '/' in H, no '/' in P and no '?' in PATH.            *)

PrefixesOf(s) == {SubSeq(s, 1, k) : k \in 0..Len(s)}

NoneOf(s, cs) == \A i \in 1..Len(s) : s[i] \notin cs

\* the optional part that c opens, read off the front of s: absent, or c
\* followed by a text without the characters in cs
OptionalPart(s, c, cs) ==
    {[has |-> FALSE, text |-> EmptyStr, rest |-> s]}
    \cup (IF s # EmptyStr /\ s[1] = c
          THEN {[has |-> TRUE, text |-> x, rest |-> After(s, Len(x) + 1)] :
                    x \in {y \in PrefixesOf(Tail(s)) : NoneOf(y, cs)}}
          ELSE {})

C1_Compose(f) ==
    HTTP \o f.H
         \o (IF f.hasP THEN <<":">> \o f.P ELSE EmptyStr)
         \o (IF f.hasPath
             THEN <<"/">> \o f.PATH \o (IF f.hasQ THEN <<"?">> \o f.Q ELSE EmptyStr)
             ELSE EmptyStr)

\* every way of reading raw as a well-formed string
C1_Forms(raw) ==
    IF ~OccursAt(raw, 1, HTTP) THEN {}
    ELSE LET rest == After(raw, Len(HTTP))
             hs == {h \in PrefixesOf(rest) : NoneOf(h, {":", "/"})}
             all ==
                 UNION {UNION {UNION {
                     {[H |-> h, hasP |-> p.has, P |-> p.text,
                       hasPath |-> q.has, PATH |-> q.text,
                       hasQ |-> r.has, Q |-> r.text, rest |-> r.rest]
                        : r \in IF q.has
                                THEN OptionalPart(q.rest, "?", {})
                                ELSE {[has |-> FALSE, text |-> EmptyStr, rest |-> q.rest]}}
                        : q \in OptionalPart(p.rest, "/", {"?"})}
                        : p \in OptionalPart(After(rest, Len(h)), ":", {"/"})}
                        : h \in hs}
         IN  {f \in all : f.rest = EmptyStr}

(* C1: on every well-formed raw string parse succeeds with host = H,       *)
(* port = P ("80" without the ":" P part), path = PATH ("" without the     *)
(* "/" part), searchpart = Q ("" without the "?" part) and raw unchanged.  *)
C1_WellFormed ==
    Returned =>
        \A f \in C1_Forms(input) :
            /\ Succeeded
            /\ ret.val.host = f.H
            /\ ret.val.port = (IF f.hasP THEN f.P ELSE DefaultPort)
            /\ ret.val.path = f.PATH
            /\ ret.val.searchpart = f.Q
            /\ ret.val.url = input

(* C4: when raw begins with "http://", exactly one leading "http://" is    *)
(* removed before extraction: host, port, path and searchpart are steps 3  *)
(* to 6 applied to raw without its first 7 characters, also when what is   *)
(* left begins with "http://" itself.                                      *)
C4_StripsOnce ==
    (Succeeded /\ OccursAt(input, 1, HTTP)) =>
        FieldsFrom(ret.val, After(input, Len(HTTP)))

----------------------------------------------------------------------------
(* What the code does where C1 and C4 fail *)

\* C1 holds on every well-formed raw string in which no second "http://"
\* follows the first: the repeated scheme is the only case in which it fails
C1_ExceptRepeatedScheme ==
    (Returned /\ ~OccursAt(input, Len(HTTP) + 1, HTTP)) => C1_WellFormed

\* every raw string that begins with "http://" is well-formed, in exactly
\* one way, and C1_Forms reads it correctly
C1_FormsAreRight ==
    /\ OccursAt(input, 1, HTTP) => Cardinality(C1_Forms(input)) = 1
    /\ \A f \in C1_Forms(input) : C1_Compose(f) = input

\* the code removes every leading "http://", not one
StripsEveryScheme ==
    Succeeded => FieldsFrom(ret.val, StripAll(input))

====
